---------------------------- MODULE Spec2Model ----------------------------
(***************************************************************************)
(* Model of the PIB fact checker: build_index.py writes the FAISS index    *)
(* and the metadata table, VectorStore loads them and retrieves the        *)
(* nearest statements, FactChecker compares the first numeric literal of   *)
(* a claim with the one of the top statement, and the Streamlit page       *)
(* builds a FactChecker for every button press.                            *)
(***************************************************************************)
EXTENDS Integers, Sequences, FiniteSets, TLC

(***************************************************************************)
(* Arbitrary-size naturals as little-endian sequences of 15-bit limbs      *)
(* without leading zero limbs (<<>> is 0).  They carry the 53-bit          *)
(* significands of the Python floats the classifier computes with; the     *)
(* recursions run over limbs or halve their range, so they stay shallow.   *)
(***************************************************************************)
\* The element of a one-element set.  Written around {e : x \in {v}} it is
\* "e with x the value of v", v being evaluated once however often e uses x.
Value(S) == CHOOSE r \in S : TRUE

LimbBits == 15

Base == 2 ^ LimbBits

Limb(a, i) == IF i <= Len(a) THEN a[i] ELSE 0

RECURSIVE BNorm(_)
BNorm(b) ==
    IF b = <<>> THEN <<>>
    ELSE IF b[Len(b)] = 0 THEN BNorm(SubSeq(b, 1, Len(b) - 1))
    ELSE b

\* a natural below Base * Base
BFromNat(n) == BNorm(<<n % Base, n \div Base>>)

RECURSIVE BAddC(_, _, _, _)
BAddC(a, b, i, c) ==
    IF i > Len(a) /\ i > Len(b)
    THEN (IF c = 1 THEN <<1>> ELSE <<>>)
    ELSE LET s == Limb(a, i) + Limb(b, i) + c
         IN  <<s % Base>> \o BAddC(a, b, i + 1, s \div Base)

BAdd(a, b) == BAddC(a, b, 1, 0)

RECURSIVE BSubC(_, _, _, _)
BSubC(a, b, i, c) ==
    IF i > Len(a) THEN <<>>
    ELSE LET s == Limb(a, i) - Limb(b, i) - c
         IN  <<s % Base>> \o BSubC(a, b, i + 1, IF s < 0 THEN 1 ELSE 0)

\* a - b for a >= b
BSub(a, b) == BNorm(BSubC(a, b, 1, 0))

RECURSIVE BLeqFrom(_, _, _)
BLeqFrom(a, b, i) ==
    IF i = 0 THEN TRUE
    ELSE IF a[i] # b[i] THEN a[i] < b[i]
    ELSE BLeqFrom(a, b, i - 1)

BLeq(a, b) ==
    IF Len(a) # Len(b) THEN Len(a) < Len(b) ELSE BLeqFrom(a, b, Len(a))

RECURSIVE BMulC(_, _, _, _)
BMulC(a, s, i, c) ==
    IF i > Len(a) THEN (IF c = 0 THEN <<>> ELSE <<c>>)
    ELSE LET p == a[i] * s + c
         IN  <<p % Base>> \o BMulC(a, s, i + 1, p \div Base)

\* a * s for a limb s
BMulSmall(a, s) == IF s = 0 THEN <<>> ELSE BMulC(a, s, 1, 0)

RECURSIVE BMul(_, _)
BMul(a, b) ==
    IF b = <<>> \/ a = <<>> THEN <<>>
    ELSE LET rest == BMul(a, Tail(b))
         IN  BAdd(BMulSmall(a, b[1]), IF rest = <<>> THEN <<>> ELSE <<0>> \o rest)

\* a * 2^n
BShl(a, n) ==
    IF a = <<>> THEN <<>>
    ELSE [i \in 1..(n \div LimbBits) |-> 0] \o BMulSmall(a, 2 ^ (n % LimbBits))

\* a \div 2^n for n < LimbBits
BShr(a, n) ==
    BNorm([i \in 1..Len(a) |->
              (a[i] \div 2 ^ n) + (Limb(a, i + 1) % 2 ^ n) * 2 ^ (LimbBits - n)])

RECURSIVE SmallBitLen(_)
SmallBitLen(n) == IF n = 0 THEN 0 ELSE 1 + SmallBitLen(n \div 2)

\* the number of bits of a
BitLen(a) ==
    IF a = <<>> THEN 0 ELSE LimbBits * (Len(a) - 1) + SmallBitLen(a[Len(a)])

\* bit k of a, bit 0 the lowest
Bit(a, k) == (Limb(a, k \div LimbBits + 1) \div 2 ^ (k % LimbBits)) % 2

\* One step of restoring division: bring down a bit, subtract b if it fits.
DivStep(st, bit, b) ==
    Value({IF BLeq(b, r2)
           THEN [q |-> BAdd(q2, <<1>>), r |-> BSub(r2, b)]
           ELSE [q |-> q2, r |-> r2] :
              r2 \in {BAdd(BAdd(st.r, st.r), IF bit = 1 THEN <<1>> ELSE <<>>)},
              q2 \in {BAdd(st.q, st.q)}})

\* The steps for bits hi down to lo of a, the range halved at each call.
RECURSIVE DivSteps(_, _, _, _, _)
DivSteps(a, b, hi, lo, st) ==
    IF hi < lo THEN st
    ELSE IF hi = lo THEN DivStep(st, Bit(a, hi), b)
    ELSE Value({DivSteps(a, b, (hi + lo) \div 2, lo, high) :
                   high \in {DivSteps(a, b, hi, (hi + lo) \div 2 + 1, st)}})

\* [q, r] with a = q * b + r and r < b
BDivMod(a, b) ==
    Value({DivSteps(x, y, BitLen(x) - 1, 0, [q |-> <<>>, r |-> <<>>]) :
              x \in {a}, y \in {b}})

BTen == BFromNat(10)

RECURSIVE BPow10(_)
BPow10(k) == IF k = 0 THEN <<1>> ELSE BMulSmall(BPow10(k - 1), 10)

\* the natural written by a sequence of decimal digits
RECURSIVE BOfDigits(_)
BOfDigits(ds) ==
    IF ds = <<>> THEN <<>>
    ELSE BAdd(BMulSmall(BOfDigits(SubSeq(ds, 1, Len(ds) - 1)), 10),
              BFromNat(ds[Len(ds)]))

(***************************************************************************)
(* Python floats (IEEE-754 binary64), non-negative and in the normal       *)
(* range: [m, e] is m * 2^e with m = <<>> (zero) or 2^52 <= m < 2^53.      *)
(* Every operation rounds its exact result to nearest, ties to even.       *)
(***************************************************************************)
DZero == [m |-> <<>>, e |-> 0]

\* the float made of the quotient qr of n * 2^t by d, 54 or 55 bits long
RoundQuotient(qr, t) ==
    LET drop  == BitLen(qr.q) - 53
        m0    == BShr(qr.q, drop)
        rbit  == Bit(qr.q, drop - 1)
        stick == (drop = 2 /\ Bit(qr.q, 0) = 1) \/ qr.r # <<>>
    IN  Value({IF BitLen(m1) = 54
               THEN [m |-> BShr(m1, 1), e |-> drop - t + 1]
               ELSE [m |-> m1, e |-> drop - t] :
                  m1 \in {IF rbit = 1 /\ (stick \/ Bit(m0, 0) = 1)
                          THEN BAdd(m0, <<1>>) ELSE m0}})

\* the float nearest to the rational n / d (d > 0)
RoundNearestEven(n, d) ==
    Value({IF x = <<>> THEN DZero
           ELSE Value({RoundQuotient(qr, t) :
                          qr \in {IF t >= 0 THEN BDivMod(BShl(x, t), y)
                                  ELSE BDivMod(x, BShl(y, 0 - t))}}) :
              x \in {n}, y \in {d}, t \in {54 + BitLen(d) - BitLen(n)}})

Min2(a, b) == IF a <= b THEN a ELSE b

\* x <= y on floats that hold values
LeqValues(x, y) ==
    IF x.m = <<>> THEN TRUE
    ELSE IF y.m = <<>> THEN FALSE
    ELSE BLeq(BShl(x.m, x.e - Min2(x.e, y.e)), BShl(y.m, y.e - Min2(x.e, y.e)))

\* x <= y
DLeq(x, y) == Value({LeqValues(u, v) : u \in {x}, v \in {y}})

\* abs(x - y)
DAbsDiff(x, y) ==
    Value({IF u.m = <<>> THEN v
           ELSE IF v.m = <<>> THEN u
           ELSE Value({IF lo >= 0 THEN RoundNearestEven(BShl(n, lo), <<1>>)
                       ELSE RoundNearestEven(n, BShl(<<1>>, 0 - lo)) :
                          n \in {IF BLeq(b, a) THEN BSub(a, b) ELSE BSub(b, a)}}) :
              u \in {x}, v \in {y}, lo \in {Min2(x.e, y.e)},
              a \in {BShl(x.m, x.e - Min2(x.e, y.e))},
              b \in {BShl(y.m, y.e - Min2(x.e, y.e))}})

\* x / y for y > 0
DDiv(x, y) ==
    Value({IF u.m = <<>> THEN DZero
           ELSE RoundNearestEven(
                    IF u.e >= v.e THEN BShl(u.m, u.e - v.e) ELSE u.m,
                    IF v.e > u.e THEN BShl(v.m, v.e - u.e) ELSE v.m) :
              u \in {x}, v \in {y}})

\* max(x, y)
DMax(x, y) ==
    Value({IF LeqValues(u, v) /\ ~LeqValues(v, u) THEN v ELSE u :
              u \in {x}, v \in {y}})

\* the literals 1e-6 and 0.2 of classify_claim
Eps == RoundNearestEven(<<1>>, BPow10(6))

Tolerance == RoundNearestEven(<<1>>, BFromNat(5))

(***************************************************************************)
(* Texts are sequences of characters.                                      *)
(***************************************************************************)
Digits == {"0", "1", "2", "3", "4", "5", "6", "7", "8", "9"}

DigitValue(ch) ==
    CASE ch = "0" -> 0 [] ch = "1" -> 1 [] ch = "2" -> 2 [] ch = "3" -> 3
      [] ch = "4" -> 4 [] ch = "5" -> 5 [] ch = "6" -> 6 [] ch = "7" -> 7
      [] ch = "8" -> 8 [] ch = "9" -> 9

IsDigit(ch) == ch \in Digits

\* text.replace(",", "")
RemoveCommas(text) == SelectSeq(text, LAMBDA ch : ch # ",")

\* the index after the run of digits that starts at i
DigitRunEnd(t, i) ==
    CHOOSE j \in i..(Len(t) + 1) :
        /\ j = Len(t) + 1 \/ ~IsDigit(t[j])
        /\ \A k \in i..(j - 1) : IsDigit(t[k])

\* re.findall(r"\d+(?:\.\d+)?", t): the matches from index i on, left to right
RECURSIVE FindAllNumbers(_, _)
FindAllNumbers(t, i) ==
    IF i > Len(t) THEN <<>>
    ELSE IF ~IsDigit(t[i]) THEN FindAllNumbers(t, i + 1)
    ELSE LET j    == DigitRunEnd(t, i)
             frac == j + 1 <= Len(t) /\ t[j] = "." /\ IsDigit(t[j + 1])
             k    == IF frac THEN DigitRunEnd(t, j + 1) ELSE j
         IN  <<SubSeq(t, i, k - 1)>> \o FindAllNumbers(t, k)

\* the decimal number a literal (digits, or digits "." digits) writes, as the
\* fraction n / d of two naturals
Literal(lit) ==
    LET dot  == IF \E i \in 1..Len(lit) : lit[i] = "."
                THEN CHOOSE i \in 1..Len(lit) : lit[i] = "." ELSE Len(lit) + 1
        ip   == SubSeq(lit, 1, dot - 1)
        fp   == SubSeq(lit, dot + 1, Len(lit))
        digs == [i \in 1..(Len(ip) + Len(fp)) |-> DigitValue((ip \o fp)[i])]
    IN  [n |-> BOfDigits(digs), d |-> BPow10(Len(fp))]

\* float(n): the float nearest to the number the literal writes
ParseFloat(lit) ==
    Value({RoundNearestEven(x.n, x.d) : x \in {Literal(lit)}})

extract_numbers(text) ==
    LET nums == FindAllNumbers(RemoveCommas(text), 1)
    IN  [i \in 1..Len(nums) |-> ParseFloat(nums[i])]

(***************************************************************************)
(* The NLP pipeline (spaCy) and the sentence embedder are libraries; the   *)
(* model gives them a small deterministic stand-in over its alphabet:      *)
(* "!" ends a sentence, "N" is a named entity, "v" is a verb, and the      *)
(* embedding of a text counts its letters a, b and c.                      *)
(***************************************************************************)
Count(text, ch) == Cardinality({i \in 1..Len(text) : text[i] = ch})

\* self.embedder.encode([query])
Embed(text) == <<Count(text, "a"), Count(text, "b"), Count(text, "c")>>

\* the squared Euclidean distance of IndexFlatL2
L2Sq(u, v) ==
    (u[1] - v[1]) * (u[1] - v[1]) + (u[2] - v[2]) * (u[2] - v[2])
      + (u[3] - v[3]) * (u[3] - v[3])

\* doc.sents: the spans of text that end with "!" (or with the text)
RECURSIVE Sents(_)
Sents(text) ==
    IF text = <<>> THEN <<>>
    ELSE LET stop == IF \E i \in 1..Len(text) : text[i] = "!"
                     THEN CHOOSE i \in 1..Len(text) :
                              text[i] = "!" /\ \A j \in 1..(i - 1) : text[j] # "!"
                     ELSE Len(text)
         IN  <<SubSeq(text, 1, stop)>> \o Sents(SubSeq(text, stop + 1, Len(text)))

\* [ent.text for ent in sent_doc.ents]
Entities(sent) == SelectSeq(sent, LAMBDA ch : ch = "N")

\* any(token.pos_ == "VERB" for token in sent_doc)
HasVerb(sent) == \E i \in 1..Len(sent) : sent[i] = "v"

\* str.strip()
Strip(t) ==
    LET ink == {i \in 1..Len(t) : t[i] # " "}
    IN  IF ink = {} THEN <<>>
        ELSE SubSeq(t, CHOOSE i \in ink : \A j \in ink : i <= j,
                       CHOOSE i \in ink : \A j \in ink : j <= i)

\* the for loop of ClaimExtractor.extract_claims over the sentences from i on
RECURSIVE ClaimsFrom(_, _)
ClaimsFrom(sents, i) ==
    IF i > Len(sents) THEN <<>>
    ELSE LET entities == Entities(sents[i])
             has_verb == HasVerb(sents[i])
         IN  (IF entities # <<>> /\ has_verb
              THEN <<[sentence |-> Strip(sents[i]), entities |-> entities]>>
              ELSE <<>>) \o ClaimsFrom(sents, i + 1)

\* extract_claims with the fallback its last comment announces: a text in
\* which nothing matched is one claim
extract_claims_fallback(text) ==
    Value({IF claims = <<>>
           THEN <<[sentence |-> Strip(text), entities |-> <<>>]>>
           ELSE claims : claims \in {ClaimsFrom(Sents(text), 1)}})

extract_claims(text) == ClaimsFrom(Sents(text), 1)

(***************************************************************************)
(* Inputs: the rows of facts.csv, the sentences texts are made of.         *)
(***************************************************************************)
FactStatements ==
    << <<"N", "a", " ", "3">>,
       <<"N", "a", "a", " ", "1", "0">>,
       <<"N", "b", " ", "4", "0", ".", "0">>,
       <<"N", "b", "b", " ", "5", "0">>,
       <<"N", "c", " ", "1", ",", "0", "0", "0">>,
       <<"N", "c", "c">>,
       <<"N", "a", "b", " ", "0">>,
       <<"N", "a", "b", "c", " ", "2">> >>

Sentences ==
    << <<" ", "N", "v", "a", " ", "3", ".", "6", "!">>,
       <<"N", "v", "a", "a", " ", "1", "2", "!">>,
       <<"N", "v", "b", " ", "3", "9", ".", "8", "4", "!">>,
       <<"N", "v", "b", "b", " ", "5", "!">>,
       <<"N", "v", "c", " ", "1", ",", "2", "0", "0", "!">>,
       <<"N", "v", "c", "c", "!">>,
       <<"N", "v", "c", "c", " ", "7", "!">>,
       <<"v", "a", " ", "3", "!">>,
       <<"N", "a", " ", "3", "!">>,
       <<"N", "v", "a", "b", " ", "0", "!">> >>

\* what a caller may write into the statement of a fact it was handed
Tampered == <<"N", "c", "c", " ", "9">>

MaxCorpus == 7

MaxSents == 2

MaxTopK == 6

\* a row of facts.csv as save_metadata writes it
FactRow(i) ==
    [id |-> i, source |-> "pib", date |-> "2025-01-01",
     statement |-> FactStatements[i]]

Corpora == {[i \in 1..n |-> FactRow(i)] : n \in 1..MaxCorpus}

\* the sentences the texts handed to fact_check_text are made of: two claims
\* (one after a blank), a sentence without entity, a sentence without verb
TextSentences == {Sentences[1], Sentences[6], Sentences[8], Sentences[9]}

RECURSIVE TextsOf(_)
TextsOf(n) ==
    IF n = 0 THEN {<<>>}
    ELSE LET shorter == TextsOf(n - 1)
         IN  shorter \cup {t \o st : t \in shorter, st \in TextSentences}

Texts == TextsOf(MaxSents)

ClaimTexts == {Strip(Sentences[i]) : i \in 1..Len(Sentences)}

\* the queries handed to retrieve directly, one near each group of statements
Queries == {<<"a">>, <<"b", "b">>, <<"c", "c", "c">>}

(***************************************************************************)
(* The program.                                                            *)
(***************************************************************************)
TOP_K == 5

\* the distance faiss reports for a neighbour it did not find (FLT_MAX)
FltMax == 1000000

NoStore == [loaded |-> FALSE, index |-> <<>>, metadata |-> <<>>]

NoRequest == [active |-> FALSE, text |-> <<>>]

NoCall ==
    [op |-> "none", arg |-> <<>>, k |-> 0, failAt |-> 0, retrievals |-> 0,
     afterChange |-> FALSE]

NoReturn == [facts |-> <<>>, records |-> <<>>]

VARIABLES
    csv,      \* the rows of facts.csv
    disk,     \* faiss_index.bin and facts_metadata.json, when they exist
    pc,       \* "idle", "clicked", "ready", "shown", "failed"
    request,  \* the button press being handled and its text
    store,    \* the VectorStore of the FactChecker: index and metadata rows
    heap,     \* the dict objects of the process, by reference
    call,     \* the last call made on the FactChecker
    ret,      \* what that call returned
    err,      \* the exception that ended the last step, or "none"
    dirty     \* the caller has changed ret since it was returned

vars == <<csv, disk, pc, request, store, heap, call, ret, err, dirty>>

\* build_faiss_index over build_embeddings: one vector per statement, in order
build_faiss_index(rows) == [i \in 1..Len(rows) |-> Embed(rows[i].statement)]

\* d[k] = v on a dict
SetItem(d, k, v) == [x \in (DOMAIN d) \cup {k} |-> IF x = k THEN v ELSE d[x]]

\* row in place of dict(row): the object of the metadata table itself
DictAlias(hp, ref) == [heap |-> hp, ref |-> ref]

\* dict(row): a new object with the items of row
DictCopy(hp, ref) == [heap |-> Append(hp, hp[ref]), ref |-> Len(hp) + 1]

\* list[idx] in Python: the position (from 1) read, 0 for an IndexError
PyIndex(len, idx) ==
    IF idx >= 0 THEN (IF idx < len THEN idx + 1 ELSE 0)
    ELSE (IF 0 - idx <= len THEN len + idx + 1 ELSE 0)

\* a search that reports the first top_k positions in the order of the index
SearchUnsorted(index, q, top_k) ==
    [r \in 1..top_k |->
        IF r <= Len(index)
        THEN [dist |-> L2Sq(q, index[r]), idx |-> r - 1]
        ELSE [dist |-> FltMax, idx |-> 0 - 1]]

\* the place of position i among the distances d: ascending, ties in
\* insertion order
Rank(d, i) ==
    1 + Cardinality({j \in 1..Len(d) : d[j] < d[i] \/ (d[j] = d[i] /\ j < i)})

\* index.search(q_emb, top_k): the top_k nearest positions by ascending
\* distance, missing neighbours as position -1
Search(index, q, top_k) ==
    Value({[r \in 1..top_k |->
               IF r <= Len(d)
               THEN Value({[dist |-> d[i], idx |-> i - 1] :
                              i \in {j \in 1..Len(d) : Rank(d, j) = r}})
               ELSE [dist |-> FltMax, idx |-> 0 - 1]] :
              d \in {[i \in 1..Len(index) |-> L2Sq(q, index[i])]}})

\* meta = self.metadata[idx]; meta["score"] = float(dist): the score written
\* into the row of the table
ScoredInPlace(hp, ref, dist) ==
    [heap |-> [hp EXCEPT ![ref] = SetItem(@, "score", dist)], ref |-> ref]

\* meta = dict(self.metadata[idx]); meta["score"] = float(dist)
ScoredCopy(hp, ref, dist) ==
    Value({[heap |-> [meta.heap EXCEPT ![meta.ref] = SetItem(@, "score", dist)],
            ref  |-> meta.ref] : meta \in {DictCopy(hp, ref)}})

\* the for loop of VectorStore.retrieve from hit i on
RECURSIVE RetrieveLoop(_, _, _, _, _)
RetrieveLoop(hp, metadata, hits, i, results) ==
    IF i > Len(hits) THEN [err |-> "none", heap |-> hp, results |-> results]
    ELSE Value({IF pos = 0
                THEN [err |-> "IndexError", heap |-> hp, results |-> <<>>]
                ELSE Value({RetrieveLoop(meta.heap, metadata, hits, i + 1,
                                         Append(results, meta.ref)) :
                               meta \in {ScoredCopy(hp, metadata[pos], hits[i].dist)}}) :
                   pos \in {PyIndex(Len(metadata), hits[i].idx)}})

\* VectorStore.retrieve; raises: the embedder or the index search fails
retrieve(hp, vs, query, top_k, raises) ==
    IF raises THEN [err |-> "RuntimeError", heap |-> hp, results |-> <<>>]
    ELSE Value({RetrieveLoop(hp, vs.metadata, hits, 1, <<>>) :
                   hits \in {Search(vs.index, Embed(query), top_k)}})

\* rel_diff <= 0.2 for rel_diff = abs(c - f) / max(abs(f), 1e-6)
RelDiffWithin(c, f) ==
    Value({DLeq(rel_diff, Tolerance) :
              rel_diff \in {DDiv(DAbsDiff(c, f), DMax(f, Eps))}})

\* the comparison with a missing number read as 0.0
NumericCompareDefaultZero(claim, top_fact) ==
    Value({IF RelDiffWithin(c, f)
           THEN [verdict |-> "True",
                 reasoning |-> [text |-> "close", args |-> <<c, f>>]]
           ELSE [verdict |-> "False",
                 reasoning |-> [text |-> "different", args |-> <<c, f>>]] :
              c \in {IF extract_numbers(claim) = <<>> THEN DZero
                     ELSE extract_numbers(claim)[1]},
              f \in {IF extract_numbers(top_fact) = <<>> THEN DZero
                     ELSE extract_numbers(top_fact)[1]}})

\* the numeric comparison of classify_claim: verdict and reasoning
NumericCompare(claim, top_fact) ==
    Value({IF claim_nums # <<>> /\ fact_nums # <<>>
           THEN LET c == claim_nums[1]
                    f == fact_nums[1]
                IN  IF RelDiffWithin(c, f)
                    THEN [verdict |-> "True",
                          reasoning |-> [text |-> "close", args |-> <<c, f>>]]
                    ELSE [verdict |-> "False",
                          reasoning |-> [text |-> "different", args |-> <<c, f>>]]
           ELSE [verdict |-> "Unverifiable",
                 reasoning |-> [text |-> "no numbers", args |-> <<>>]] :
              claim_nums \in {extract_numbers(claim)},
              fact_nums \in {extract_numbers(top_fact)}})

\* [fact["statement"] for fact in retrieved]: the slice left out
EvidenceAll(hp, retrieved) ==
    [i \in 1..Len(retrieved) |-> hp[retrieved[i]]["statement"]]

\* [fact["statement"] for fact in retrieved[:3]]
Evidence(hp, retrieved) ==
    [i \in 1..Min2(3, Len(retrieved)) |-> hp[retrieved[i]]["statement"]]

\* classify_claim once the facts are retrieved
Classified(claim, got) ==
    IF got.err # "none" THEN [err |-> got.err, heap |-> got.heap]
    ELSE IF got.results = <<>>
    THEN [err |-> "none", heap |-> got.heap,
          record |-> [claim |-> claim, retrieved_facts |-> <<>>,
                      verdict |-> "Unverifiable",
                      reasoning |-> [text |-> "nothing retrieved", args |-> <<>>],
                      evidence |-> <<>>]]
    ELSE Value({[err |-> "none", heap |-> got.heap,
                 record |-> [claim |-> claim, retrieved_facts |-> got.results,
                             verdict |-> cmp.verdict,
                             reasoning |-> cmp.reasoning,
                             evidence |-> IF cmp.verdict = "Unverifiable"
                                          THEN <<>>
                                          ELSE Evidence(got.heap, got.results)]] :
                   cmp \in {NumericCompare(claim,
                                           got.heap[got.results[1]]["statement"])}})

\* FactChecker.classify_claim
classify_claim(hp, vs, claim, raises) ==
    Value({Classified(claim, got) : got \in {retrieve(hp, vs, claim, TOP_K, raises)}})

\* the list comprehension of fact_check_text from claim i on; the retriever
\* raises for claim failAt (0: for none)
RECURSIVE ClassifyAll(_, _, _, _, _, _)
ClassifyAll(hp, vs, claims, i, failAt, records) ==
    IF i > Len(claims)
    THEN [err |-> "none", heap |-> hp, records |-> records, retrievals |-> i - 1]
    ELSE Value({IF one.err # "none"
                THEN [err |-> one.err, heap |-> one.heap, records |-> <<>>,
                      retrievals |-> i]
                ELSE ClassifyAll(one.heap, vs, claims, i + 1, failAt,
                                 Append(records, one.record)) :
                   one \in {classify_claim(hp, vs, claims[i].sentence, i = failAt)}})

\* FactChecker.fact_check_text
fact_check_text(hp, vs, text, failAt) ==
    Value({IF claims = <<>>
           THEN [err |-> "none", heap |-> hp, records |-> <<>>, retrievals |-> 0]
           ELSE ClassifyAll(hp, vs, claims, 1, failAt, <<>>) :
              claims \in {extract_claims(text)}})

\* VectorStore.__init__: both files must exist; json.load makes the rows
\* objects of the process
VectorStore_init(d) ==
    IF ~d.hasIndex \/ ~d.hasMeta
    THEN [err |-> "FileNotFoundError", store |-> NoStore, heap |-> <<>>]
    ELSE [err |-> "none",
          store |-> [loaded |-> TRUE, index |-> d.index,
                     metadata |-> [i \in 1..Len(d.meta) |-> i]],
          heap |-> d.meta]

\* the objects that outlive a returned value the caller has dropped
Live(hp, vs) == SubSeq(hp, 1, Len(vs.metadata))

Init ==
    /\ csv \in Corpora
    /\ disk = [hasIndex |-> FALSE, index |-> <<>>, hasMeta |-> FALSE, meta |-> <<>>]
    /\ pc = "idle"
    /\ request = NoRequest
    /\ store = NoStore
    /\ heap = <<>>
    /\ call = NoCall
    /\ ret = NoReturn
    /\ err = "none"
    /\ dirty = FALSE

\* build_index.main up to save_index
SaveIndex ==
    /\ ~disk.hasIndex
    /\ disk' = [disk EXCEPT !.hasIndex = TRUE, !.index = build_faiss_index(csv)]
    /\ UNCHANGED <<csv, pc, request, store, heap, call, ret, err, dirty>>

\* build_index.main: save_metadata, after save_index
SaveMetadata ==
    /\ disk.hasIndex /\ ~disk.hasMeta
    /\ disk' = [disk EXCEPT !.hasMeta = TRUE, !.meta = csv]
    /\ UNCHANGED <<csv, pc, request, store, heap, call, ret, err, dirty>>

\* The result of constructing the FactChecker in the state of the disk.
Constructed(next) ==
    \E made \in {VectorStore_init(disk)} :
        /\ store' = made.store
        /\ heap' = made.heap
        /\ err' = made.err
        /\ pc' = IF made.err = "none" THEN next ELSE "failed"
        /\ call' = NoCall
        /\ ret' = NoReturn
        /\ dirty' = FALSE

\* fact_checker.py run as a program, or any caller of the library:
\* checker = FactChecker()
StartMain ==
    /\ pc = "idle"
    /\ Constructed("ready")
    /\ UNCHANGED <<csv, disk, request>>

\* streamlit_app.py: the button is pressed with a text that is not blank
Click(text) ==
    /\ pc = "idle"
    /\ Strip(text) # <<>>
    /\ request' = [active |-> TRUE, text |-> text]
    /\ pc' = "clicked"
    /\ UNCHANGED <<csv, disk, store, heap, call, ret, err, dirty>>

\* streamlit_app.py: checker = FactChecker() in the button handler
ClickConstruct ==
    /\ pc = "clicked"
    /\ Constructed("ready")
    /\ UNCHANGED <<csv, disk, request>>

\* what a call leaves behind besides its result
Called(op, arg, k, failAt, out, n) ==
    /\ call' = [op |-> op, arg |-> arg, k |-> k, failAt |-> failAt,
                retrievals |-> n, afterChange |-> dirty]
    /\ heap' = out.heap
    /\ err' = out.err
    /\ dirty' = FALSE

\* streamlit_app.py: results = checker.fact_check_text(input_text)
HandleRequest(failAt) ==
    /\ pc = "ready" /\ request.active /\ call.op = "none"
    /\ failAt <= Len(extract_claims(request.text))
    /\ \E out \in {fact_check_text(Live(heap, store), store, request.text, failAt)} :
           /\ Called("fact_check_text", request.text, 0, failAt, out, out.retrievals)
           /\ ret' = [facts |-> <<>>, records |-> out.records]
           /\ pc' = IF out.err = "none" THEN "shown" ELSE "failed"
    /\ UNCHANGED <<csv, disk, request, store>>

\* the page is run again, or the program ends: its objects are gone
Rerun ==
    /\ pc \in {"ready", "shown", "failed"}
    /\ pc = "ready" => ~request.active
    /\ pc' = "idle"
    /\ request' = NoRequest
    /\ store' = NoStore
    /\ heap' = <<>>
    /\ call' = NoCall
    /\ ret' = NoReturn
    /\ err' = "none"
    /\ dirty' = FALSE
    /\ UNCHANGED <<csv, disk>>

\* a caller of the library that holds no result of an earlier call
LibraryCaller == pc = "ready" /\ ~request.active /\ call.op = "none"

\* the caller holds the result of a call
Holding == pc = "ready" /\ ~request.active /\ call.op # "none"

\* checker.vector_store.retrieve(query, top_k)
CallRetrieve(query, top_k, raises) ==
    /\ LibraryCaller
    /\ \E out \in {retrieve(Live(heap, store), store, query, top_k, raises)} :
           /\ Called("retrieve", query, top_k, IF raises THEN 1 ELSE 0, out, 1)
           /\ ret' = [facts |-> out.results, records |-> <<>>]
    /\ UNCHANGED <<csv, disk, pc, request, store>>

\* checker.classify_claim(claim)
CallClassify(claim, raises) ==
    /\ LibraryCaller
    /\ \E out \in {classify_claim(Live(heap, store), store, claim, raises)} :
           /\ Called("classify_claim", claim, 0, IF raises THEN 1 ELSE 0, out, 1)
           /\ ret' = [facts |-> <<>>,
                      records |-> IF out.err = "none" THEN <<out.record>> ELSE <<>>]
    /\ UNCHANGED <<csv, disk, pc, request, store>>

\* checker.fact_check_text(text), as the program's main does
CallFactCheck(text, failAt) ==
    /\ LibraryCaller
    /\ failAt <= Len(extract_claims(text))
    /\ \E out \in {fact_check_text(Live(heap, store), store, text, failAt)} :
           /\ Called("fact_check_text", text, 0, failAt, out, out.retrievals)
           /\ ret' = [facts |-> <<>>, records |-> out.records]
    /\ UNCHANGED <<csv, disk, pc, request, store>>

\* the facts of the first list the call returned
ReturnedFacts ==
    IF ret.facts # <<>> THEN ret.facts
    ELSE IF ret.records # <<>> THEN ret.records[1].retrieved_facts
    ELSE <<>>

\* the caller changes or adds a field of a fact it was handed
MutateFact(rank, field) ==
    /\ Holding
    /\ ~dirty
    /\ rank <= Len(ReturnedFacts)
    /\ heap' = [heap EXCEPT ![ReturnedFacts[rank]] =
                   SetItem(@, field,
                           CASE field = "score" -> 0
                             [] field = "statement" -> Tampered
                             [] field = "note" -> "checked")]
    /\ dirty' = TRUE
    /\ UNCHANGED <<csv, disk, pc, request, store, call, ret, err>>

\* the caller lets go of the result: its objects are garbage
Release ==
    /\ Holding
    /\ call' = NoCall
    /\ ret' = NoReturn
    /\ err' = "none"
    /\ heap' = Live(heap, store)
    /\ UNCHANGED <<csv, disk, pc, request, store, dirty>>

Next ==
    \/ SaveIndex
    \/ SaveMetadata
    \/ StartMain
    \/ \E text \in Texts : Click(text)
    \/ ClickConstruct
    \/ \E failAt \in 0..MaxSents : HandleRequest(failAt)
    \/ Rerun
    \/ \E query \in Queries, top_k \in 1..MaxTopK, raises \in BOOLEAN :
           CallRetrieve(query, top_k, raises)
    \/ \E claim \in ClaimTexts, raises \in BOOLEAN : CallClassify(claim, raises)
    \/ \E text \in Texts, failAt \in 0..MaxSents : CallFactCheck(text, failAt)
    \/ \E rank \in 1..MaxTopK, field \in {"score", "statement", "note"} :
           MutateFact(rank, field)
    \/ Release

Spec == Init /\ [][Next]_vars


(***************************************************************************)
(* The properties of the specification, stated on what the last call       *)
(* returned.                                                               *)
(***************************************************************************)
\* the last call came back and the caller has not changed what it was handed
Returned == call.op # "none" /\ err = "none" /\ ~dirty

\* the text contains a numeric literal
HasNumber(text) == FindAllNumbers(RemoveCommas(text), 1) # <<>>

\* the first numeric literal of the text, as the fraction it writes
FirstLiteral(text) == Literal(FindAllNumbers(RemoveCommas(text), 1)[1])

\* the statement of the top-ranked fact of a record
TopStatement(r) == heap[r.retrieved_facts[1]]["statement"]

\* |c - f| / max(|f|, 1e-6) <= 0.20 in exact arithmetic, c and f fractions
ExactWithin(c, f) ==
    LET cross == BMul(c.n, f.d)
        back  == BMul(f.n, c.d)
        diff  == IF BLeq(cross, back) THEN BSub(back, cross) ELSE BSub(cross, back)
    IN  IF BLeq(f.d, BMul(f.n, BPow10(6)))
        THEN BLeq(BMulSmall(diff, 5), BMul(c.d, f.n))
        ELSE BLeq(BMul(BMulSmall(diff, 5), BPow10(6)), BMul(c.d, f.d))

\* the sentences of the text with an entity and a verb, in the order of the text
Qualifying(text) ==
    SelectSeq(Sents(text), LAMBDA st : Entities(st) # <<>> /\ HasVerb(st))

\* the facts are in non-decreasing order of score
SortedByScore(facts) ==
    \A i \in 1..(Len(facts) - 1) :
        heap[facts[i]]["score"] <= heap[facts[i + 1]]["score"]

\* every fact the last call returned, list after list
RECURSIVE FactsOfRecords(_, _)
FactsOfRecords(records, i) ==
    IF i > Len(records) THEN <<>>
    ELSE records[i].retrieved_facts \o FactsOfRecords(records, i + 1)

AllReturnedFacts == ret.facts \o FactsOfRecords(ret.records, 1)

\* C1: a record whose claim and top fact both have a numeric literal has
\* verdict True when the relative difference of the first literals is at most
\* 0.20 (0.20 itself included) and False when it is more, and between one and
\* three statements of evidence.
C1_NumericVerdict ==
    Returned =>
        \A i \in 1..Len(ret.records) :
            LET r == ret.records[i]
            IN  (/\ r.retrieved_facts # <<>>
                 /\ HasNumber(r.claim)
                 /\ HasNumber(TopStatement(r)))
                => /\ r.verdict =
                        IF ExactWithin(FirstLiteral(r.claim),
                                       FirstLiteral(TopStatement(r)))
                        THEN "True" ELSE "False"
                   /\ 0 < Len(r.evidence) /\ Len(r.evidence) <= 3

\* C1: classify_claim("Nva 3.6") against the top fact "Na 3": the relative
\* difference is exactly 0.20 and the verdict is False
C1_BoundaryJudgedFalse ==
    /\ call.op = "classify_claim" /\ Returned
    /\ call.arg = Strip(Sentences[1])
    /\ TopStatement(ret.records[1]) = FactStatements[1]
    /\ ExactWithin(FirstLiteral(call.arg), FirstLiteral(FactStatements[1]))
    /\ ret.records[1].verdict = "False"

\* C2: when the retriever raises for one claim of a text, fact_check_text
\* still returns one record per claim, the failing claim's record being
\* Unverifiable, and no error reaches the caller.
C2_FailureIsolated ==
    (call.op = "fact_check_text" /\ call.failAt > 0)
    => /\ err = "none"
       /\ Len(ret.records) = Len(Qualifying(call.arg))
       /\ ret.records[call.failAt].verdict = "Unverifiable"

\* C2: the retriever raised for the second of two claims: the call ended with
\* the error and no record at all
C2_BatchAborted ==
    /\ call.op = "fact_check_text" /\ call.failAt = 2
    /\ Len(Qualifying(call.arg)) = 2
    /\ err = "RuntimeError"
    /\ ret.records = <<>>

\* C3: classify_claim does not raise when the retriever does not, and a
\* record with nothing retrieved, or whose claim or top fact has no numeric
\* literal, has verdict Unverifiable and no evidence.
C3_AmbiguityIsUnverifiable ==
    /\ (call.op \in {"classify_claim", "fact_check_text"} /\ call.failAt = 0)
       => err = "none"
    /\ Returned =>
           \A i \in 1..Len(ret.records) :
               LET r == ret.records[i]
               IN  /\ r.retrieved_facts = <<>>
                      => r.verdict = "Unverifiable" /\ r.evidence = <<>>
                   /\ (/\ r.retrieved_facts # <<>>
                       /\ ~HasNumber(r.claim) \/ ~HasNumber(TopStatement(r)))
                      => r.verdict = "Unverifiable" /\ r.evidence = <<>>

\* C3: a claim with a number whose top fact has none came back Unverifiable
C3_NoNumberInTopFact ==
    /\ call.op = "classify_claim" /\ Returned
    /\ HasNumber(call.arg)
    /\ ~HasNumber(TopStatement(ret.records[1]))
    /\ ret.records[1].verdict = "Unverifiable"
    /\ ret.records[1].evidence = <<>>

\* C4: in every returned record the verdict is True, False or Unverifiable,
\* the evidence is empty when it is Unverifiable, has at most three entries,
\* and entry i is the statement of the i-th retrieved fact.
C4_RecordInvariants ==
    Returned =>
        \A i \in 1..Len(ret.records) :
            LET r == ret.records[i]
            IN  /\ r.verdict \in {"True", "False", "Unverifiable"}
                /\ r.verdict = "Unverifiable" => r.evidence = <<>>
                /\ Len(r.evidence) <= 3
                /\ Len(r.evidence) <= Len(r.retrieved_facts)
                /\ \A j \in 1..Len(r.evidence) :
                       r.evidence[j] = heap[r.retrieved_facts[j]]["statement"]

\* C4: a record judged True came back with three statements of evidence out
\* of five retrieved facts
C4_ThreeOfFive ==
    /\ Returned
    /\ \E i \in 1..Len(ret.records) :
           /\ ret.records[i].verdict = "True"
           /\ Len(ret.records[i].evidence) = 3
           /\ Len(ret.records[i].retrieved_facts) = 5

\* C5: retrieve(query, k) returns at most k facts in non-decreasing order of
\* score, and so are the retrieved facts of every record.
C5_AtMostKSorted ==
    Returned =>
        /\ call.op = "retrieve"
           => Len(ret.facts) <= call.k /\ SortedByScore(ret.facts)
        /\ \A i \in 1..Len(ret.records) :
               /\ Len(ret.records[i].retrieved_facts) <= TOP_K
               /\ SortedByScore(ret.records[i].retrieved_facts)

\* C5: retrieve returned three or more facts of growing score, the nearest of
\* them not the first row of the table
C5_NearestFirst ==
    /\ call.op = "retrieve" /\ Returned
    /\ Len(ret.facts) >= 3
    /\ heap[ret.facts[1]]["id"] # 1
    /\ heap[ret.facts[1]]["score"] < heap[ret.facts[2]]["score"]
    /\ heap[ret.facts[2]]["score"] < heap[ret.facts[3]]["score"]

C7_MissingFilesFailAtStartup ==
    /\ store.loaded => disk.hasIndex /\ disk.hasMeta
    /\ err = "FileNotFoundError" => ~request.active

\* C7: the button was pressed with a text and the handler ended with
\* FileNotFoundError
C7_RequestEndedByMissingFile ==
    /\ request.active
    /\ pc = "failed"
    /\ err = "FileNotFoundError"
    /\ ~store.loaded

\* C8: the index and the rows of the metadata table are as they were loaded,
\* whatever was called and whatever the caller did to the facts it was
\* handed, and every returned fact is an object of its own.
C8_SharedStoreUnchanged ==
    store.loaded =>
        /\ store.index = disk.index
        /\ Len(store.metadata) = Len(disk.meta)
        /\ \A i \in 1..Len(store.metadata) : heap[store.metadata[i]] = disk.meta[i]
        /\ \A i \in 1..Len(AllReturnedFacts) :
               /\ \A j \in 1..Len(store.metadata) :
                      AllReturnedFacts[i] # store.metadata[j]
               /\ \A j \in 1..(i - 1) : AllReturnedFacts[i] # AllReturnedFacts[j]

\* C8: a retrieval made after the caller changed a fact of an earlier result
C8_RetrievedAfterChange ==
    /\ call.op = "retrieve" /\ call.afterChange
    /\ err = "none"
    /\ Len(ret.facts) >= 2

\* C9: classify_claim(x) returns the verdict, reasoning and evidence that it
\* returns on the index and the table as loaded, whatever was called and
\* changed before: two calls with the same text return the same three.
C9_ClassifyIdempotent ==
    (call.op = "classify_claim" /\ err = "none")
    => \A fresh \in {classify_claim(disk.meta, store, call.arg, FALSE)} :
           /\ fresh.err = "none"
           /\ ret.records[1].verdict = fresh.record.verdict
           /\ ret.records[1].reasoning = fresh.record.reasoning
           /\ ret.records[1].evidence = fresh.record.evidence

\* C9: a claim classified True after the caller changed a fact of an earlier
\* result
C9_ClassifiedAfterChange ==
    /\ call.op = "classify_claim" /\ call.afterChange
    /\ err = "none"
    /\ ret.records[1].verdict = "True"

\* C10: retrieve returns no more facts than the corpus has statements and no
\* statement twice, also on an index with fewer than top_k vectors.
C10_OnlyMatchedRows ==
    (call.op = "retrieve" /\ Returned)
    => /\ Len(ret.facts) <= Len(store.metadata)
       /\ \A i \in 1..Len(ret.facts) : \A j \in 1..(i - 1) :
              heap[ret.facts[i]]["statement"] # heap[ret.facts[j]]["statement"]

\* C10: retrieve with top_k = 5 on a corpus of two statements returned five
\* facts, the last three the last row of the table
C10_LastRowRepeated ==
    /\ call.op = "retrieve" /\ Returned
    /\ call.k = 5
    /\ Len(store.metadata) = 2
    /\ Len(ret.facts) = 5
    /\ \A i \in 3..5 : heap[ret.facts[i]]["id"] = 2 /\ heap[ret.facts[i]]["score"] = FltMax

=============================================================================
